---- MODULE Spec2Model ----
(***************************************************************************)
(* Booking conflict detection and slot allocation of the multi-store       *)
(* booking system: BookingService, ConflictDetectionService,               *)
(* CalendarService, BusinessHoursService, ServiceService, BarberService.   *)
(*                                                                         *)
(* Time is an integer number of minutes of the store-local clock; minute 0 *)
(* is 00:00 of a Monday.  A Date that failed to parse is InvalidDate.      *)
(* "HH:mm" strings are sequences of character codes (digits 0..9, Colon),  *)
(* so that the string comparisons of the code are computed as the code     *)
(* computes them.  Absent optional arguments are None.                     *)
(***************************************************************************)
EXTENDS Integers, Sequences, FiniteSets, TLC

VARIABLES
    bookings,       \* the booking table, in creation order; a booking's id is its index
    barbers,        \* the barber table, by id
    services,       \* the service table, by id
    businessHours,  \* the business_hours table, a set of rows
    now,            \* the clock read by new Date()
    rangeErrors,    \* whether the installed date-fns raises on an invalid interval
    lastCheck,      \* the last availability query made and what it returned
    pc              \* the createBooking calls in flight, per request handler

vars == <<bookings, barbers, services, businessHours, now, rangeErrors, lastCheck, pc>>
db == <<bookings, barbers, services, businessHours>>

(***************************************************************************)
(* Bounds of the model                                                     *)
(***************************************************************************)
MaxBookings == 2
MaxTicks == 1
MaxServices == 4

None == 1 - 1
InvalidDate == 0 - 1
Colon == 9 + 1
MinutesPerDay == 24 * 60
SlotInterval == 30
MaxAlternatives == 5

(***************************************************************************)
(* The universe of the model: two stores, their barbers and services       *)
(***************************************************************************)
StoreIds == {1, 2}
BarberIds == 1 .. 3
ServiceIds == 1 .. 3
BarberStore(b) == IF b <= 2 THEN 1 ELSE 2
ServiceStore(s) == IF s <= 2 THEN 1 ELSE 2
Statuses == {"confirmed", "cancelled", "completed"}
NoStatus == "none"

T0930 == <<0, 9, Colon, 3, 0>>
T1030 == <<1, 0, Colon, 3, 0>>
T900 == <<9, Colon, 0, 0>>
T930 == <<9, Colon, 3, 0>>

\* the hours offered to updateDayBusinessHours, for Monday of store 1
HoursInputs ==
    {[openTime |-> T0930, closeTime |-> T1030, isClosed |-> FALSE],
     [openTime |-> T0930, closeTime |-> T1030, isClosed |-> TRUE],
     [openTime |-> T900, closeTime |-> T930, isClosed |-> FALSE],
     [openTime |-> T1030, closeTime |-> T0930, isClosed |-> FALSE]}
\* requested start times: Monday 09:00, 09:30, 10:00 and 23:30, Tuesday 09:30
StartTimes == {9 * 60, 9 * 60 + 30, 10 * 60, 23 * 60 + 30, MinutesPerDay + 9 * 60 + 30}
Durations == {30, 60}

(***************************************************************************)
(* date-fns and Date                                                       *)
(***************************************************************************)
addMinutes(t, n) == t + n

\* Date.prototype.getDay in the store-local clock (0 = Sunday)
getDay(t) == ((t \div MinutesPerDay) + 1) % 7

\* format(t, 'yyyy-MM-dd'): the calendar date, kept as the day number
formatDate(t) == t \div MinutesPerDay

\* new Date('yyyy-MM-dd').getDay(), server clock at or east of UTC
dateGetDay(date) == (date + 1) % 7

IsDigit(c) == c \in 0 .. 9

\* the HH:mm pattern of the schema: ([0-1]?[0-9]|2[0-3]):[0-5][0-9]
MatchesTimeRegex(s) ==
    \/ /\ Len(s) = 5
       /\ \/ s[1] \in 0 .. 1 /\ IsDigit(s[2])
          \/ s[1] = 2 /\ s[2] \in 0 .. 3
       /\ s[3] = Colon /\ s[4] \in 0 .. 5 /\ IsDigit(s[5])
    \/ /\ Len(s) = 4
       /\ IsDigit(s[1])
       /\ s[2] = Colon /\ s[3] \in 0 .. 5 /\ IsDigit(s[4])

\* JavaScript string comparison a >= b, by character code
RECURSIVE StrGeq(_, _)
StrGeq(a, b) ==
    IF b = <<>> THEN TRUE
    ELSE IF a = <<>> THEN FALSE
    ELSE IF a[1] # b[1] THEN a[1] > b[1]
    ELSE StrGeq(Tail(a), Tail(b))

\* parseISO(`${dateStr}T${time}:00`): the time part needs two-digit hours
parseISO(date, time) ==
    IF Len(time) = 5 /\ IsDigit(time[1]) /\ IsDigit(time[2]) /\ time[3] = Colon
       /\ IsDigit(time[4]) /\ IsDigit(time[5])
    THEN date * MinutesPerDay + (time[1] * 10 + time[2]) * 60 + time[4] * 10 + time[5]
    ELSE InvalidDate

\* isWithinInterval(t, {start, end}).  On an Invalid Date or a reversed interval
\* date-fns 2 raises RangeError ("throw"); date-fns 3 and later compare with NaN,
\* which is false, and order the two ends of a reversed interval
isWithinInterval(t, start, end) ==
    IF start = InvalidDate \/ end = InvalidDate
    THEN IF rangeErrors THEN "throw" ELSE "false"
    ELSE IF ~(start <= end)
    THEN IF rangeErrors THEN "throw"
         ELSE IF t >= end /\ t <= start THEN "true" ELSE "false"
    ELSE IF t >= start /\ t <= end THEN "true" ELSE "false"

(***************************************************************************)
(* Sequence helpers                                                        *)
(***************************************************************************)
RECURSIVE AscSeq(_)
\* the ids of S in ascending order (findMany returns rows in creation order)
AscSeq(S) ==
    IF S = {} THEN <<>>
    ELSE LET m == CHOOSE x \in S : \A y \in S : x <= y
         IN <<m>> \o AscSeq(S \ {m})

Take(s, n) == IF Len(s) <= n THEN s ELSE SubSeq(s, 1, n)

Range(s) == {s[i] : i \in DOMAIN s}

(***************************************************************************)
(* ConflictDetectionService                                                *)
(***************************************************************************)
\* prisma.businessHours.findFirst({ where: { storeId, dayOfWeek } })
\* the row findFirst returns when several match: no orderBy is given, and the
\* rows come in table order, which is the order of creation (seq)
FirstRow(rows) == CHOOSE h \in rows : \A g \in rows : h.seq <= g.seq

HoursRows(storeId, dayOfWeek) ==
    {h \in businessHours : h.storeId = storeId /\ h.dayOfWeek = dayOfWeek}

checkServiceAvailability(storeId, serviceId) ==
    IF ~(serviceId \in DOMAIN services /\ services[serviceId].storeId = storeId)
    THEN [isAvailable |-> FALSE, reason |-> "service_not_found"]
    ELSE IF ~services[serviceId].isActive
    THEN [isAvailable |-> FALSE, reason |-> "service_paused"]
    ELSE [isAvailable |-> TRUE, reason |-> "ok"]

\* checkBusinessHours that forgets to test the end of the interval
checkBusinessHoursStartOnly(storeId, startTime, endTime) ==
    LET rows == HoursRows(storeId, getDay(startTime))
    IN IF rows = {}
       THEN [isWithinHours |-> FALSE, threw |-> FALSE, reason |-> "no_hours"]
       ELSE LET bh == FirstRow(rows)
                isStart == isWithinInterval(startTime,
                               parseISO(formatDate(startTime), bh.openTime),
                               parseISO(formatDate(startTime), bh.closeTime))
            IN IF bh.isClosed
               THEN [isWithinHours |-> FALSE, threw |-> FALSE, reason |-> "closed"]
               ELSE [isWithinHours |-> isStart = "true", threw |-> isStart = "throw",
                     reason |-> "hours"]

\* threw = TRUE: isWithinInterval raised, the caller's catch block runs
checkBusinessHours(storeId, startTime, endTime) ==
    LET dayOfWeek == getDay(startTime)
        dateStr == formatDate(startTime)
        rows == HoursRows(storeId, dayOfWeek)
    IN IF rows = {}
       THEN [isWithinHours |-> FALSE, threw |-> FALSE, reason |-> "no_hours"]
       ELSE LET bh == FirstRow(rows)
            IN IF bh.isClosed
               THEN [isWithinHours |-> FALSE, threw |-> FALSE, reason |-> "closed"]
               ELSE LET businessStart == parseISO(dateStr, bh.openTime)
                        businessEnd == parseISO(dateStr, bh.closeTime)
                        isStart == isWithinInterval(startTime, businessStart, businessEnd)
                        isEnd == isWithinInterval(endTime, businessStart, businessEnd)
                    IN IF isStart = "throw" \/ isEnd = "throw"
                       THEN [isWithinHours |-> FALSE, threw |-> TRUE, reason |-> "error"]
                       ELSE IF isStart = "false" \/ isEnd = "false"
                       THEN [isWithinHours |-> FALSE, threw |-> FALSE, reason |-> "hours"]
                       ELSE [isWithinHours |-> TRUE, threw |-> FALSE, reason |-> "ok"]

\* the booking query with its first clause only
QueryOverlapStartOnly(b, startTime, endTime) ==
    b.startTime <= startTime /\ b.endTime > startTime

\* the booking query with every comparison inclusive
QueryOverlapInclusive(b, startTime, endTime) ==
    \/ b.startTime <= startTime /\ b.endTime >= startTime
    \/ b.startTime <= endTime /\ b.endTime >= endTime
    \/ b.startTime >= startTime /\ b.endTime <= endTime

\* the three-clause OR of the booking query
QueryOverlap(b, startTime, endTime) ==
    \/ b.startTime <= startTime /\ b.endTime > startTime
    \/ b.startTime < endTime /\ b.endTime >= endTime
    \/ b.startTime >= startTime /\ b.endTime <= endTime

\* the booking query without the status: { not: 'cancelled' } clause
ConflictingBookingsAnyStatus(storeId, barberId, startTime, endTime, excludeBookingId) ==
    {i \in DOMAIN bookings :
        /\ bookings[i].storeId = storeId
        /\ bookings[i].barberId = barberId
        /\ QueryOverlap(bookings[i], startTime, endTime)
        /\ (excludeBookingId # None => i # excludeBookingId)}

\* the booking query without the id: { not: excludeBookingId } clause
ConflictingBookingsNoExclude(storeId, barberId, startTime, endTime, excludeBookingId) ==
    {i \in DOMAIN bookings :
        /\ bookings[i].storeId = storeId
        /\ bookings[i].barberId = barberId
        /\ bookings[i].status # "cancelled"
        /\ QueryOverlap(bookings[i], startTime, endTime)}

\* prisma.booking.findMany({ where: whereClause }) of checkBarberAvailability
ConflictingBookings(storeId, barberId, startTime, endTime, excludeBookingId) ==
    {i \in DOMAIN bookings :
        /\ bookings[i].storeId = storeId
        /\ bookings[i].barberId = barberId
        /\ bookings[i].status # "cancelled"
        /\ QueryOverlap(bookings[i], startTime, endTime)
        /\ (excludeBookingId # None => i # excludeBookingId)}

\* checkBarberAvailability without the test of barber.isActive
\* checkBarberAvailability looking the barber up by id alone
checkBarberAvailabilityAnyStore(storeId, barberId, startTime, endTime, excludeBookingId) ==
    IF ~(barberId \in DOMAIN barbers)
    THEN [isAvailable |-> FALSE, reason |-> "barber_not_found"]
    ELSE IF ~barbers[barberId].isActive
    THEN [isAvailable |-> FALSE, reason |-> "barber_paused"]
    ELSE IF ConflictingBookings(storeId, barberId, startTime, endTime, excludeBookingId) # {}
    THEN [isAvailable |-> FALSE, reason |-> "booked"]
    ELSE [isAvailable |-> TRUE, reason |-> "ok"]

checkBarberAvailabilityAnyStatus(storeId, barberId, startTime, endTime, excludeBookingId) ==
    IF ~(barberId \in DOMAIN barbers /\ barbers[barberId].storeId = storeId)
    THEN [isAvailable |-> FALSE, reason |-> "barber_not_found"]
    ELSE IF ConflictingBookings(storeId, barberId, startTime, endTime, excludeBookingId) # {}
    THEN [isAvailable |-> FALSE, reason |-> "booked"]
    ELSE [isAvailable |-> TRUE, reason |-> "ok"]

checkBarberAvailability(storeId, barberId, startTime, endTime, excludeBookingId) ==
    IF ~(barberId \in DOMAIN barbers /\ barbers[barberId].storeId = storeId)
    THEN [isAvailable |-> FALSE, reason |-> "barber_not_found"]
    ELSE IF ~barbers[barberId].isActive
    THEN [isAvailable |-> FALSE, reason |-> "barber_paused"]
    ELSE IF ConflictingBookings(storeId, barberId, startTime, endTime, excludeBookingId) # {}
    THEN [isAvailable |-> FALSE, reason |-> "booked"]
    ELSE [isAvailable |-> TRUE, reason |-> "ok"]

\* prisma.barber.findMany({ where: { storeId, isActive: true } })
ActiveBarbers(storeId) ==
    AscSeq({b \in DOMAIN barbers : barbers[b].storeId = storeId /\ barbers[b].isActive})

RECURSIVE ScanBarbers(_, _, _, _, _)
ScanBarbers(roster, storeId, startTime, endTime, excludeBookingId) ==
    IF roster = <<>> THEN <<>>
    ELSE (IF checkBarberAvailability(storeId, Head(roster), startTime, endTime,
                                     excludeBookingId).isAvailable
          THEN <<[barberId |-> Head(roster), startTime |-> startTime, endTime |-> endTime]>>
          ELSE <<>>)
         \o ScanBarbers(Tail(roster), storeId, startTime, endTime, excludeBookingId)

findAvailableBarbers(storeId, startTime, endTime, excludeBookingId) ==
    ScanBarbers(ActiveBarbers(storeId), storeId, startTime, endTime, excludeBookingId)

\* the timeSlots array with the later window of each pair first
AlternativeOffsetsLaterFirst == <<30, 0 - 30, 60, 0 - 60>>

\* the offsets of the timeSlots array, in its order
AlternativeOffsets == <<0 - 30, 30, 0 - 60, 60>>

RECURSIVE ScanOffsets(_, _, _, _, _, _)
\* the for loop over timeSlots, with its break
ScanOffsets(offsets, alternatives, storeId, startTime, endTime, excludeBookingId) ==
    IF offsets = <<>> THEN alternatives
    ELSE LET found == alternatives \o
                      findAvailableBarbers(storeId, addMinutes(startTime, Head(offsets)),
                                           addMinutes(endTime, Head(offsets)), excludeBookingId)
         IN IF Len(found) >= MaxAlternatives THEN found
            ELSE ScanOffsets(Tail(offsets), found, storeId, startTime, endTime,
                             excludeBookingId)

\* the alternatives collected before the final slice
CollectAlternatives(storeId, startTime, endTime, excludeBookingId) ==
    LET sameTime == findAvailableBarbers(storeId, startTime, endTime, excludeBookingId)
    IN IF Len(sameTime) = 0
       THEN ScanOffsets(AlternativeOffsets, sameTime, storeId, startTime, endTime,
                        excludeBookingId)
       ELSE sameTime

\* findAlternativeBarbers returning all it collected
findAlternativeBarbersNoSlice(storeId, startTime, endTime, excludeBookingId) ==
    CollectAlternatives(storeId, startTime, endTime, excludeBookingId)

findAlternativeBarbers(storeId, startTime, endTime, excludeBookingId) ==
    Take(CollectAlternatives(storeId, startTime, endTime, excludeBookingId), MaxAlternatives)

\* { hasConflict: false }; "none" stands for the conflictType left undefined
NoConflict == [hasConflict |-> FALSE, conflictType |-> "none"]
\* a conflict returned with suggestedAlternatives
Conflict(type, alts) == [hasConflict |-> TRUE, conflictType |-> type, alternatives |-> alts]
\* a conflict returned without suggestedAlternatives: the record has no such field
ConflictDetails(type) == [hasConflict |-> TRUE, conflictType |-> type]

\* check = [storeId, barberId, serviceId, startTime, endTime, excludeBookingId]
checkBookingConflicts(check) ==
    LET serviceCheck == checkServiceAvailability(check.storeId, check.serviceId)
        hoursCheck == checkBusinessHours(check.storeId, check.startTime, check.endTime)
    IN IF ~serviceCheck.isAvailable THEN ConflictDetails("service_unavailable")
       ELSE IF hoursCheck.threw THEN ConflictDetails("time_overlap")
       ELSE IF ~hoursCheck.isWithinHours THEN ConflictDetails("outside_business_hours")
       ELSE IF check.barberId # None
       THEN IF ~checkBarberAvailability(check.storeId, check.barberId, check.startTime,
                                        check.endTime, check.excludeBookingId).isAvailable
            THEN Conflict("barber_unavailable",
                          findAlternativeBarbers(check.storeId, check.startTime,
                                                 check.endTime, check.excludeBookingId))
            ELSE NoConflict
       ELSE IF Len(findAvailableBarbers(check.storeId, check.startTime, check.endTime,
                                        check.excludeBookingId)) = 0
            THEN ConflictDetails("time_overlap")
            ELSE NoConflict

\* the catch block of checkBookingConflicts: what the caller gets when a storage
\* call inside the try block rejects
checkBookingConflictsCatch == ConflictDetails("time_overlap")

\* now + 30 minutes <= startTime <= now + 90 days
\* validateBookingTime refusing a start exactly 30 minutes ahead
validateBookingTimeExclusive(startTime) ==
    LET minBookingTime == addMinutes(now, 30)
        maxBookingTime == addMinutes(now, 90 * 24 * 60)
    IN ~(startTime <= minBookingTime) /\ ~(startTime > maxBookingTime)

validateBookingTime(startTime) ==
    LET minBookingTime == addMinutes(now, 30)
        maxBookingTime == addMinutes(now, 90 * 24 * 60)
    IN ~(startTime < minBookingTime) /\ ~(startTime > maxBookingTime)

(***************************************************************************)
(* CalendarService                                                         *)
(***************************************************************************)
\* getBusinessHours without the isClosed: false clause
getBusinessHoursAnyRow(storeId, date) ==
    {h \in businessHours : h.storeId = storeId /\ h.dayOfWeek = dateGetDay(date)}

\* findFirst({ where: { storeId, dayOfWeek, isClosed: false } }); {} is null
getBusinessHours(storeId, date) ==
    {h \in businessHours :
        h.storeId = storeId /\ h.dayOfWeek = dateGetDay(date) /\ ~h.isClosed}

isTimeSlotAvailable(storeId, barberId, startTime, endTime) ==
    LET dateStr == formatDate(startTime)
        rows == getBusinessHours(storeId, dateStr)
    IN IF rows = {} THEN FALSE
       ELSE LET bh == FirstRow(rows)
                businessStart == parseISO(dateStr, bh.openTime)
                businessEnd == parseISO(dateStr, bh.closeTime)
                isStart == isWithinInterval(startTime, businessStart, businessEnd)
                isEnd == isWithinInterval(endTime, businessStart, businessEnd)
            IN IF isStart = "throw" THEN FALSE
               ELSE IF isStart = "false" THEN FALSE
               ELSE IF isEnd # "true" THEN FALSE
               ELSE ConflictingBookings(storeId, barberId, startTime, endTime, None) = {}

getAvailableBarbers(storeId, barberId) ==
    AscSeq({b \in DOMAIN barbers :
               /\ barbers[b].storeId = storeId
               /\ barbers[b].isActive
               /\ (barberId # None => b = barberId)})

\* non-cancelled bookings of the barbers that start on the date
getExistingBookings(storeId, date, barberIds) ==
    {i \in DOMAIN bookings :
        /\ bookings[i].storeId = storeId
        /\ bookings[i].barberId \in barberIds
        /\ bookings[i].status # "cancelled"
        /\ bookings[i].startTime >= date * MinutesPerDay
        /\ bookings[i].startTime <= date * MinutesPerDay + (MinutesPerDay - 1)}

RECURSIVE BarberSlotsFrom(_, _, _, _, _)
\* the while loop of generateBarberTimeSlots
BarberSlotsFrom(currentTime, businessEnd, barberId, serviceDuration, existing) ==
    IF ~(currentTime < businessEnd) THEN <<>>
    ELSE LET slotEnd == addMinutes(currentTime, serviceDuration)
             hasConflict == \E i \in existing :
                                currentTime < bookings[i].endTime
                                /\ slotEnd > bookings[i].startTime
         IN (IF slotEnd <= businessEnd
             THEN <<[startTime |-> currentTime, endTime |-> slotEnd,
                     barberId |-> barberId, isAvailable |-> ~hasConflict]>>
             ELSE <<>>)
            \o BarberSlotsFrom(addMinutes(currentTime, SlotInterval), businessEnd,
                               barberId, serviceDuration, existing)

\* comparisons with an Invalid Date are false: the loop body never runs
generateBarberTimeSlots(barberId, date, bh, serviceDuration, existing) ==
    LET businessStart == parseISO(date, bh.openTime)
        businessEnd == parseISO(date, bh.closeTime)
    IN IF businessStart = InvalidDate \/ businessEnd = InvalidDate THEN <<>>
       ELSE BarberSlotsFrom(businessStart, businessEnd, barberId, serviceDuration, existing)

RECURSIVE InsertByStart(_, _)
InsertByStart(sorted, slot) ==
    IF sorted = <<>> THEN <<slot>>
    ELSE IF slot.startTime < Head(sorted).startTime THEN <<slot>> \o sorted
    ELSE <<Head(sorted)>> \o InsertByStart(Tail(sorted), slot)

RECURSIVE SortByStart(_)
\* availableSlots.sort((a, b) => a.startTime - b.startTime), a stable sort
SortByStart(slots) ==
    IF slots = <<>> THEN <<>>
    ELSE InsertByStart(SortByStart(SubSeq(slots, 1, Len(slots) - 1)), slots[Len(slots)])

RECURSIVE AllBarberSlots(_, _, _, _, _)
AllBarberSlots(roster, date, bh, serviceDuration, existing) ==
    IF roster = <<>> THEN <<>>
    ELSE generateBarberTimeSlots(Head(roster), date, bh, serviceDuration,
                                 {i \in existing : bookings[i].barberId = Head(roster)})
         \o AllBarberSlots(Tail(roster), date, bh, serviceDuration, existing)

\* query = [storeId, date, serviceId, barberId, duration]
getAvailableTimeSlots(query) ==
    IF ~(/\ query.serviceId \in DOMAIN services
         /\ services[query.serviceId].storeId = query.storeId
         /\ services[query.serviceId].isActive)
    THEN [threw |-> TRUE, slots |-> <<>>]
    ELSE LET serviceDuration == IF query.duration # None THEN query.duration
                                ELSE services[query.serviceId].duration
             rows == getBusinessHours(query.storeId, query.date)
             roster == getAvailableBarbers(query.storeId, query.barberId)
         IN IF rows = {} THEN [threw |-> FALSE, slots |-> <<>>]
            ELSE IF Len(roster) = 0 THEN [threw |-> FALSE, slots |-> <<>>]
            ELSE [threw |-> FALSE,
                  slots |-> SortByStart(AllBarberSlots(roster, query.date,
                                FirstRow(rows), serviceDuration,
                                getExistingBookings(query.storeId, query.date,
                                                    Range(roster))))]

(***************************************************************************)
(* Time utilities                                                          *)
(***************************************************************************)
\* timeToMinutes: split(':').map(Number), hours * 60 + minutes
timeToMinutes(timeString) ==
    IF Len(timeString) = 5
    THEN (timeString[1] * 10 + timeString[2]) * 60 + timeString[4] * 10 + timeString[5]
    ELSE timeString[1] * 60 + timeString[3] * 10 + timeString[4]

\* minutesToTime: both parts padded to two digits
minutesToTime(minutes) ==
    LET hours == minutes \div 60
        mins == minutes % 60
    IN <<hours \div 10, hours % 10, Colon, mins \div 10, mins % 10>>

RECURSIVE UtilSlotsFrom(_, _, _, _)
\* the for loop of the utility getAvailableTimeSlots
UtilSlotsFrom(minutes, closeMinutes, serviceDuration, slotInterval) ==
    IF minutes + serviceDuration <= closeMinutes
    THEN <<minutesToTime(minutes)>>
         \o UtilSlotsFrom(minutes + slotInterval, closeMinutes, serviceDuration,
                          slotInterval)
    ELSE <<>>

\* getAvailableTimeSlots(businessHours, serviceDuration, slotInterval) of the utilities
utilGetAvailableTimeSlots(bh, serviceDuration, slotInterval) ==
    IF bh.isClosed THEN <<>>
    ELSE UtilSlotsFrom(timeToMinutes(bh.openTime), timeToMinutes(bh.closeTime),
                       serviceDuration, slotInterval)

\* isTimeRangeOverlap(start1, end1, start2, end2)
isTimeRangeOverlap(start1, end1, start2, end2) ==
    timeToMinutes(start1) < timeToMinutes(end2)
        /\ timeToMinutes(start2) < timeToMinutes(end1)

(***************************************************************************)
(* BookingService                                                          *)
(***************************************************************************)
RECURSIVE ScanRoster(_, _, _, _)
ScanRoster(roster, storeId, startTime, endTime) ==
    IF roster = <<>> THEN <<>>
    ELSE (IF isTimeSlotAvailable(storeId, Head(roster), startTime, endTime)
          THEN <<Head(roster)>> ELSE <<>>)
         \o ScanRoster(Tail(roster), storeId, startTime, endTime)

\* the roster scan returning the barber found last at the head of the list
findAvailableBarberLastFirst(storeId, startTime, endTime) ==
    LET found == ScanRoster(ActiveBarbers(storeId), storeId, startTime, endTime)
    IN [k \in 1 .. Len(found) |-> found[Len(found) + 1 - k]]

findAvailableBarber(storeId, startTime, endTime) ==
    ScanRoster(ActiveBarbers(storeId), storeId, startTime, endTime)

\* the rows prisma.service.findFirst({ where: { id, storeId, isActive: true } }) matches
FindActiveService(serviceId, storeId) ==
    /\ serviceId \in DOMAIN services
    /\ services[serviceId].storeId = storeId
    /\ services[serviceId].isActive

\* { success: false, error: conflictDetails, alternatives: suggestedAlternatives }
ConflictFailure(conflictCheck) ==
    IF "alternatives" \in DOMAIN conflictCheck
    THEN [success |-> FALSE, error |-> conflictCheck.conflictType,
          alternatives |-> conflictCheck.alternatives]
    ELSE [success |-> FALSE, error |-> conflictCheck.conflictType]

\* request = [storeId, barberId, serviceId, startTime]; the result of createBooking
\* up to, and without, the insert
createBookingCheck(request) ==
    IF ~FindActiveService(request.serviceId, request.storeId)
    THEN [success |-> FALSE, error |-> "service_not_found"]
    ELSE LET endTime == addMinutes(request.startTime, services[request.serviceId].duration)
             availableBarbers == findAvailableBarber(request.storeId, request.startTime,
                                                     endTime)
             assignedBarberId == IF request.barberId # None THEN request.barberId
                                 ELSE IF Len(availableBarbers) = 0 THEN None
                                 ELSE availableBarbers[1]
             conflictCheck == checkBookingConflicts(
                                  [storeId |-> request.storeId,
                                   barberId |-> assignedBarberId,
                                   serviceId |-> request.serviceId,
                                   startTime |-> request.startTime,
                                   endTime |-> endTime,
                                   excludeBookingId |-> None])
         IN IF ~validateBookingTime(request.startTime)
            THEN [success |-> FALSE, error |-> "time_invalid"]
            ELSE IF assignedBarberId = None
            THEN [success |-> FALSE, error |-> "no_barber"]
            ELSE IF conflictCheck.hasConflict
            THEN ConflictFailure(conflictCheck)
            ELSE [success |-> TRUE,
                  booking |-> [storeId |-> request.storeId,
                               barberId |-> assignedBarberId,
                               serviceId |-> request.serviceId,
                               startTime |-> request.startTime,
                               endTime |-> endTime,
                               status |-> "confirmed"]]

\* newEndTime computed from the duration of the service the booking had
UpdateEndTimeOldService(existingBooking, newStartTime, newServiceId) ==
    addMinutes(newStartTime, services[existingBooking.serviceId].duration)

\* newEndTime = addMinutes(newStartTime, newService.duration)
UpdateEndTime(existingBooking, newStartTime, newServiceId) ==
    addMinutes(newStartTime, services[newServiceId].duration)

\* request = [bookingId, barberId, serviceId, startTime, status]; the result of
\* updateBooking, with the row prisma.booking.update writes
updateBookingResult(request) ==
    IF ~(request.bookingId \in DOMAIN bookings)
    THEN [success |-> FALSE, error |-> "booking_not_found"]
    ELSE LET existingBooking == bookings[request.bookingId]
             withStatus == IF request.status # NoStatus
                           THEN [existingBooking EXCEPT !.status = request.status]
                           ELSE existingBooking
         IN IF request.serviceId # None \/ request.startTime # None
               \/ request.barberId # None
            THEN LET newServiceId == IF request.serviceId # None THEN request.serviceId
                                     ELSE existingBooking.serviceId
                     newStartTime == IF request.startTime # None THEN request.startTime
                                     ELSE existingBooking.startTime
                     newBarberId == IF request.barberId # None THEN request.barberId
                                    ELSE existingBooking.barberId
                     newEndTime == UpdateEndTime(existingBooking, newStartTime,
                                                 newServiceId)
                     conflictCheck == checkBookingConflicts(
                                          [storeId |-> existingBooking.storeId,
                                           barberId |-> newBarberId,
                                           serviceId |-> newServiceId,
                                           startTime |-> newStartTime,
                                           endTime |-> newEndTime,
                                           excludeBookingId |-> request.bookingId])
                 IN IF request.serviceId # None
                       /\ ~FindActiveService(request.serviceId, existingBooking.storeId)
                    THEN [success |-> FALSE, error |-> "service_not_found"]
                    ELSE IF request.startTime # None
                            /\ ~validateBookingTime(request.startTime)
                    THEN [success |-> FALSE, error |-> "time_invalid"]
                    ELSE IF conflictCheck.hasConflict
                    THEN ConflictFailure(conflictCheck)
                    ELSE [success |-> TRUE,
                          booking |-> [withStatus EXCEPT !.serviceId = newServiceId,
                                                         !.startTime = newStartTime,
                                                         !.barberId = newBarberId,
                                                         !.endTime = newEndTime]]
            ELSE [success |-> TRUE, booking |-> withStatus]

(***************************************************************************)
(* Requests                                                                *)
(***************************************************************************)
CreateRequests ==
    [storeId : StoreIds, barberId : BarberIds \cup {None}, serviceId : ServiceIds,
     startTime : StartTimes]

\* updateBooking calls that change the time, the barber or the service
RescheduleRequests ==
    {r \in [bookingId : 1 .. MaxBookings, barberId : BarberIds \cup {None},
            serviceId : ServiceIds \cup {None}, startTime : StartTimes \cup {None},
            status : {NoStatus}] :
        r.barberId # None \/ r.serviceId # None \/ r.startTime # None}

\* updateBooking calls that change the status only
StatusRequests ==
    [bookingId : 1 .. MaxBookings, barberId : {None}, serviceId : {None},
     startTime : {None}, status : Statuses]

(***************************************************************************)
(* Operations                                                              *)
(***************************************************************************)
Idle == [state |-> "idle"]
Procs == {1, 2}

Init ==
    /\ bookings = <<>>
    /\ barbers = [b \in BarberIds |-> [storeId |-> BarberStore(b), isActive |-> TRUE]]
    /\ services = [s \in ServiceIds |->
                      [storeId |-> ServiceStore(s),
                       duration |-> IF s = 2 THEN 60 ELSE 30,
                       fraction |-> 0,
                       isActive |-> TRUE]]
    /\ businessHours = {}
    /\ now = 8 * 60
    /\ rangeErrors \in BOOLEAN
    /\ lastCheck = [fn |-> "none"]
    /\ pc = [p \in Procs |-> Idle]

\* BookingService.createBooking, run to completion
CreateBooking(request) ==
    /\ Len(bookings) < MaxBookings
    /\ LET result == createBookingCheck(request)
       IN bookings' = IF result.success THEN Append(bookings, result.booking)
                      ELSE bookings
    /\ UNCHANGED <<barbers, services, businessHours, now, rangeErrors, lastCheck, pc>>

\* updateBooking writing the new start time before the checks are made
UpdateBookingWritesEarly(request) ==
    /\ LET result == updateBookingResult(request)
       IN bookings' = IF result.success
                      THEN [bookings EXCEPT ![request.bookingId] = result.booking]
                      ELSE IF request.bookingId \in DOMAIN bookings
                              /\ request.startTime # None
                      THEN [bookings EXCEPT ![request.bookingId].startTime =
                                                request.startTime]
                      ELSE bookings
    /\ UNCHANGED <<barbers, services, businessHours, now, rangeErrors, lastCheck, pc>>

\* BookingService.updateBooking, run to completion
UpdateBooking(request) ==
    /\ LET result == updateBookingResult(request)
       IN bookings' = IF result.success
                      THEN [bookings EXCEPT ![request.bookingId] = result.booking]
                      ELSE bookings
    /\ UNCHANGED <<barbers, services, businessHours, now, rangeErrors, lastCheck, pc>>

\* BookingService.cancelBooking
CancelBooking(bookingId) ==
    /\ bookings' = IF bookingId \in DOMAIN bookings
                      /\ bookings[bookingId].status # "cancelled"
                   THEN [bookings EXCEPT ![bookingId].status = "cancelled"]
                   ELSE bookings
    /\ UNCHANGED <<barbers, services, businessHours, now, rangeErrors, lastCheck, pc>>

\* BusinessHoursService.updateDayBusinessHours; a rejected input writes nothing
UpdateDayBusinessHours(storeId, dayOfWeek, hours) ==
    /\ LET valid == /\ dayOfWeek >= 0 /\ dayOfWeek <= 6
                    /\ MatchesTimeRegex(hours.openTime)
                    /\ MatchesTimeRegex(hours.closeTime)
                    /\ ~(~hours.isClosed /\ StrGeq(hours.openTime, hours.closeTime))
           existing == HoursRows(storeId, dayOfWeek)
           row == [storeId |-> storeId, dayOfWeek |-> dayOfWeek,
                   openTime |-> hours.openTime, closeTime |-> hours.closeTime,
                   isClosed |-> hours.isClosed,
                   seq |-> IF existing # {} THEN FirstRow(existing).seq
                           ELSE Cardinality(businessHours) + 1]
       IN businessHours' =
              IF ~valid THEN businessHours
              ELSE IF existing # {}
              THEN (businessHours \ {FirstRow(existing)}) \cup {row}
              ELSE businessHours \cup {row}
    /\ UNCHANGED <<bookings, barbers, services, now, rangeErrors, lastCheck, pc>>

\* BusinessHoursService.setBusinessHours: the list is validated entry by entry,
\* then the rows of the store are deleted and one row per entry is created in a
\* transaction; a rejected list writes nothing. The rows kept are renumbered
\* 1, 2, ... in their order and the created ones follow in list order.
SetBusinessHours(storeId, list) ==
    /\ LET valid == \A k \in DOMAIN list :
                        /\ list[k].dayOfWeek >= 0 /\ list[k].dayOfWeek <= 6
                        /\ MatchesTimeRegex(list[k].openTime)
                        /\ MatchesTimeRegex(list[k].closeTime)
                        /\ ~(~list[k].isClosed
                               /\ StrGeq(list[k].openTime, list[k].closeTime))
           kept == {h \in businessHours : h.storeId # storeId}
           renumbered == {[h EXCEPT !.seq = Cardinality({g \in kept : g.seq <= h.seq})] :
                             h \in kept}
           created == {[storeId |-> storeId, dayOfWeek |-> list[k].dayOfWeek,
                        openTime |-> list[k].openTime, closeTime |-> list[k].closeTime,
                        isClosed |-> list[k].isClosed,
                        seq |-> Cardinality(kept) + k] : k \in DOMAIN list}
       IN businessHours' =
              IF ~valid THEN businessHours
              ELSE renumbered \cup created
    /\ UNCHANGED <<bookings, barbers, services, now, rangeErrors, lastCheck, pc>>

\* A JavaScript number with at most one decimal digit, whole + tenths / 10;
\* a stored service keeps it as duration (whole) and fraction (tenths).
Num(whole, tenths) == [whole |-> whole, tenths |-> tenths]

\* the duration rule of createServiceSchema and updateServiceSchema:
\* z.number().min(1).max(480)
durationSchema(n) ==
    /\ n.whole >= 1
    /\ (n.whole < 480 \/ (n.whole = 480 /\ n.tenths = 0))

\* isValidServiceDuration of the type utilities
isValidServiceDuration(n) ==
    /\ n.tenths = 0
    /\ n.whole > 0
    /\ n.whole <= 480

\* ServiceService.createService; the name is taken to be unused in the store
CreateService(storeId, n) ==
    /\ Cardinality(DOMAIN services) < MaxServices
    /\ services' = IF durationSchema(n) /\ storeId \in StoreIds
                   THEN LET id == Cardinality(DOMAIN services) + 1
                        IN [s \in DOMAIN services \cup {id} |->
                               IF s = id
                               THEN [storeId |-> storeId,
                                     duration |-> n.whole,
                                     fraction |-> n.tenths,
                                     isActive |-> TRUE]
                               ELSE services[s]]
                   ELSE services
    /\ UNCHANGED <<bookings, barbers, businessHours, now, rangeErrors, lastCheck, pc>>

\* ServiceService.updateService with data = { duration }
UpdateService(id, n) ==
    /\ services' = IF id \in DOMAIN services /\ durationSchema(n)
                   THEN [services EXCEPT ![id].duration = n.whole,
                                         ![id].fraction = n.tenths]
                   ELSE services
    /\ UNCHANGED <<bookings, barbers, businessHours, now, rangeErrors, lastCheck, pc>>

\* ServiceService.toggleServiceStatus
ToggleServiceStatus(id) ==
    /\ id \in DOMAIN services
    /\ services' = [services EXCEPT ![id].isActive = ~services[id].isActive]
    /\ UNCHANGED <<bookings, barbers, businessHours, now, rangeErrors, lastCheck, pc>>

\* deleteBarber going to the delete branch whatever the barber's bookings
DeleteBarberAlways(id, cascade) ==
    /\ IF id \notin DOMAIN barbers
       THEN UNCHANGED <<barbers, bookings>>
       ELSE IF cascade \/ ~(\E i \in DOMAIN bookings : bookings[i].barberId = id)
       THEN /\ barbers' = [b \in DOMAIN barbers \ {id} |-> barbers[b]]
            /\ bookings' = SelectSeq(bookings, LAMBDA b : b.barberId # id)
       ELSE UNCHANGED <<barbers, bookings>>
    /\ UNCHANGED <<services, businessHours, now, rangeErrors, lastCheck, pc>>

\* BarberService.deleteBarber. A barber with a confirmed booking starting now or
\* later is deactivated; otherwise the row is deleted, and the bookings that
\* reference it go with it (barber_id ... ON DELETE CASCADE, cascade = TRUE) or
\* make the delete fail (a restricting foreign key, cascade = FALSE).
DeleteBarber(id, cascade) ==
    /\ IF id \notin DOMAIN barbers
       THEN UNCHANGED <<barbers, bookings>>
       ELSE IF \E i \in DOMAIN bookings :
                  /\ bookings[i].barberId = id
                  /\ bookings[i].status = "confirmed"
                  /\ bookings[i].startTime >= now
       THEN /\ barbers' = [barbers EXCEPT ![id].isActive = FALSE]
            /\ bookings' = bookings
       ELSE IF cascade \/ ~(\E i \in DOMAIN bookings : bookings[i].barberId = id)
       THEN /\ barbers' = [b \in DOMAIN barbers \ {id} |-> barbers[b]]
            /\ bookings' = SelectSeq(bookings, LAMBDA b : b.barberId # id)
       ELSE UNCHANGED <<barbers, bookings>>
    /\ UNCHANGED <<services, businessHours, now, rangeErrors, lastCheck, pc>>

\* ServiceService.deleteService, with the same two branches
DeleteService(id, cascade) ==
    /\ IF id \notin DOMAIN services
       THEN UNCHANGED <<services, bookings>>
       ELSE IF \E i \in DOMAIN bookings :
                  /\ bookings[i].serviceId = id
                  /\ bookings[i].status = "confirmed"
                  /\ bookings[i].startTime >= now
       THEN /\ services' = [services EXCEPT ![id].isActive = FALSE]
            /\ bookings' = bookings
       ELSE IF cascade \/ ~(\E i \in DOMAIN bookings : bookings[i].serviceId = id)
       THEN /\ services' = [s \in DOMAIN services \ {id} |-> services[s]]
            /\ bookings' = SelectSeq(bookings, LAMBDA b : b.serviceId # id)
       ELSE UNCHANGED <<services, bookings>>
    /\ UNCHANGED <<barbers, businessHours, now, rangeErrors, lastCheck, pc>>

\* BarberService.toggleBarberStatus
ToggleBarberStatus(id) ==
    /\ id \in DOMAIN barbers
    /\ barbers' = [barbers EXCEPT ![id].isActive = ~barbers[id].isActive]
    /\ UNCHANGED <<bookings, services, businessHours, now, rangeErrors, lastCheck, pc>>

\* the clock advances
Tick ==
    /\ now < 8 * 60 + MaxTicks * 90
    /\ now' = now + 90
    /\ UNCHANGED <<bookings, barbers, services, businessHours, rangeErrors, lastCheck, pc>>

\* the conflict checks a client asks for before it books
QueryChecks ==
    {[storeId |-> 1, barberId |-> b, serviceId |-> 1, startTime |-> t,
      endTime |-> addMinutes(t, 30), excludeBookingId |-> None] :
        b \in {None, 1}, t \in {9 * 60 + 30, 10 * 60}}

\* the slots a client asks isTimeSlotAvailable about
SlotProbes ==
    {[storeId |-> 1, barberId |-> b, startTime |-> t, endTime |-> addMinutes(t, 30)] :
        b \in {1, 2}, t \in {9 * 60 + 30, 10 * 60}}

\* a call of ConflictDetectionService.checkBookingConflicts; the caller keeps the
\* result
CheckBookingConflictsCall(check) ==
    /\ lastCheck' = [fn |-> "checkBookingConflicts", input |-> check,
                     result |-> checkBookingConflicts(check)]
    /\ UNCHANGED <<bookings, barbers, services, businessHours, now, rangeErrors, pc>>

\* a slot check that also holds the slot it found free
IsTimeSlotAvailableCallHolding(probe) ==
    /\ Len(bookings) < MaxBookings
    /\ LET free == isTimeSlotAvailable(probe.storeId, probe.barberId,
                                       probe.startTime, probe.endTime)
       IN /\ lastCheck' = [fn |-> "isTimeSlotAvailable", input |-> probe,
                           result |-> free]
          /\ bookings' = IF free
                         THEN Append(bookings,
                                  [storeId |-> probe.storeId, barberId |-> probe.barberId,
                                   serviceId |-> 1, startTime |-> probe.startTime,
                                   endTime |-> probe.endTime, status |-> "pending"])
                         ELSE bookings
    /\ UNCHANGED <<barbers, services, businessHours, now, rangeErrors, pc>>

\* a call of CalendarService.isTimeSlotAvailable; the caller keeps the result
IsTimeSlotAvailableCall(probe) ==
    /\ lastCheck' = [fn |-> "isTimeSlotAvailable", input |-> probe,
                     result |-> isTimeSlotAvailable(probe.storeId, probe.barberId,
                                                    probe.startTime, probe.endTime)]
    /\ UNCHANGED <<bookings, barbers, services, businessHours, now, rangeErrors, pc>>

\* the windows, durations and steps given to the slot enumerators
SlotWindows ==
    [openTime : {<<0, 9, Colon, 0, 0>>, T0930, T900},
     closeTime : {T0930, T1030, <<1, 2, Colon, 0, 0>>, T930},
     isClosed : BOOLEAN]
SlotDurations == {1, 30, 45, 60, 90, 180, 240}
SlotSteps == {15, 30, 45}

\* a call of the utility getAvailableTimeSlots; the caller keeps the result
UtilSlotsCall(bh, serviceDuration, slotInterval) ==
    /\ lastCheck' = [fn |-> "getAvailableTimeSlots",
                     input |-> [bh |-> bh, serviceDuration |-> serviceDuration,
                                slotInterval |-> slotInterval],
                     result |-> utilGetAvailableTimeSlots(bh, serviceDuration,
                                                          slotInterval)]
    /\ UNCHANGED <<bookings, barbers, services, businessHours, now, rangeErrors, pc>>

\* a call of CalendarService.generateBarberTimeSlots for a barber without bookings
\* on the day that starts at minute 0
GenerateSlotsCall(bh, serviceDuration) ==
    /\ ~bh.isClosed
    /\ lastCheck' = [fn |-> "generateBarberTimeSlots",
                     input |-> [bh |-> bh, serviceDuration |-> serviceDuration,
                                slotInterval |-> SlotInterval],
                     result |-> generateBarberTimeSlots(1, 0, bh, serviceDuration, {})]
    /\ UNCHANGED <<bookings, barbers, services, businessHours, now, rangeErrors, pc>>

\* intervals with start before end, on a half-hour grid
GridTimes == {9 * 60, 9 * 60 + 30, 10 * 60, 10 * 60 + 30, 11 * 60}
GridIntervals ==
    {i \in [startTime : GridTimes, endTime : GridTimes] : i.startTime < i.endTime}

\* the same as HH:mm strings, padded or not
GridStrings == {T900, T0930, <<1, 0, Colon, 0, 0>>, T1030}
StringIntervals ==
    {i \in [startTime : GridStrings, endTime : GridStrings] :
        timeToMinutes(i.startTime) < timeToMinutes(i.endTime)}

\* the OR clause of the booking query of checkBarberAvailability and
\* isTimeSlotAvailable, applied to one booking row and one candidate interval
QueryOverlapCall(booking, candidate) ==
    /\ lastCheck' = [fn |-> "QueryOverlap",
                     input |-> [booking |-> booking, candidate |-> candidate],
                     result |-> QueryOverlap(booking, candidate.startTime,
                                             candidate.endTime)]
    /\ UNCHANGED <<bookings, barbers, services, businessHours, now, rangeErrors, pc>>

\* a call of the utility isTimeRangeOverlap
IsTimeRangeOverlapCall(booking, candidate) ==
    /\ lastCheck' = [fn |-> "isTimeRangeOverlap",
                     input |-> [booking |-> booking, candidate |-> candidate],
                     result |-> isTimeRangeOverlap(candidate.startTime, candidate.endTime,
                                                   booking.startTime, booking.endTime)]
    /\ UNCHANGED <<bookings, barbers, services, businessHours, now, rangeErrors, pc>>

\* a call of checkBookingConflicts during which a prisma call rejects
CheckBookingConflictsFailing(check) ==
    /\ lastCheck' = [fn |-> "checkBookingConflicts, storage failing", input |-> check,
                     result |-> checkBookingConflictsCatch]
    /\ UNCHANGED <<bookings, barbers, services, businessHours, now, rangeErrors, pc>>

\* times the HH:mm pattern accepts, with one and with two hour digits
PatternTimes == {T900, T0930, T1030}
PatternHours == [openTime : PatternTimes, closeTime : PatternTimes, isClosed : BOOLEAN]
\* the lists given to setBusinessHours: one or two entries for Monday and Tuesday
WeekEntries ==
    [dayOfWeek : {1, 2}, openTime : PatternTimes, closeTime : PatternTimes,
     isClosed : {FALSE}]
WeekLists == {<<e>> : e \in WeekEntries} \cup {<<e, f>> : e, f \in WeekEntries}

Create == \E request \in CreateRequests : CreateBooking(request)
SetPatternHours ==
    \E dayOfWeek \in {1, 2} : \E hours \in PatternHours :
        UpdateDayBusinessHours(1, dayOfWeek, hours)
SetWeek == \E list \in WeekLists : SetBusinessHours(1, list)
QueryConflictsFailing == \E check \in QueryChecks : CheckBookingConflictsFailing(check)
QueryOverlaps == \E booking, candidate \in GridIntervals : QueryOverlapCall(booking, candidate)
RangeOverlaps ==
    \E booking, candidate \in StringIntervals : IsTimeRangeOverlapCall(booking, candidate)
ListSlots ==
    \E bh \in SlotWindows : \E d \in SlotDurations : \E step \in SlotSteps :
        UtilSlotsCall(bh, d, step)
GenerateSlots ==
    \E bh \in SlotWindows : \E d \in SlotDurations : GenerateSlotsCall(bh, d)
QueryConflicts == \E check \in QueryChecks : CheckBookingConflictsCall(check)
QueryAvailable == \E probe \in SlotProbes : IsTimeSlotAvailableCall(probe)
Reschedule == \E request \in RescheduleRequests : UpdateBooking(request)
SetStatus == \E request \in StatusRequests : UpdateBooking(request)
Cancel == \E bookingId \in 1 .. MaxBookings : CancelBooking(bookingId)
SetHours == \E hours \in HoursInputs : UpdateDayBusinessHours(1, 1, hours)
EditService == \E duration \in Durations : UpdateService(1, Num(duration, 0))

\* the durations an administrator may submit: -1, 0, 0.5, 1, 30, 30.5, 480,
\* 480.5 and 481 minutes
DurationInputs ==
    {Num(0 - 1, 0), Num(0, 0), Num(0, 5), Num(1, 0), Num(30, 0), Num(30, 5),
     Num(480, 0), Num(480, 5), Num(481, 0)}

\* the lists given to setBusinessHours for Monday alone: one or two entries
MondayLists ==
    LET entries == {[dayOfWeek |-> 1, openTime |-> h.openTime,
                     closeTime |-> h.closeTime, isClosed |-> h.isClosed] :
                        h \in HoursInputs}
    IN {<<e>> : e \in entries} \cup {<<e, f>> : e, f \in entries}

SetMonday == \E list \in MondayLists : SetBusinessHours(1, list)
SetStoreHours ==
    \E storeId \in StoreIds : \E hours \in HoursInputs :
        UpdateDayBusinessHours(storeId, 1, hours)
\* starts around the two ends of the booking window: today, and 90 days ahead
WindowStarts ==
    {9 * 60 + 30, 10 * 60, 90 * MinutesPerDay + 9 * 60 + 30, 90 * MinutesPerDay + 10 * 60}
WindowRequests ==
    [storeId : {1}, barberId : {None, 1}, serviceId : {1}, startTime : WindowStarts]
WindowReschedules ==
    [bookingId : 1 .. MaxBookings, barberId : {None}, serviceId : {None},
     startTime : WindowStarts, status : {NoStatus}]

BookInWindow == \E request \in WindowRequests : CreateBooking(request)
MoveInWindow == \E request \in WindowReschedules : UpdateBooking(request)
SetOpenDays ==
    \E dayOfWeek \in {0, 1} : \E hours \in HoursInputs :
        UpdateDayBusinessHours(1, dayOfWeek, hours)
OpenMonday ==
    UpdateDayBusinessHours(1, 1, [openTime |-> T0930, closeTime |-> T1030,
                                  isClosed |-> FALSE])
RemoveBarber == \E id \in {1, 2}, cascade \in BOOLEAN : DeleteBarber(id, cascade)
RemoveService == \E cascade \in BOOLEAN : DeleteService(1, cascade)
AddService == \E storeId \in StoreIds, n \in DurationInputs : CreateService(storeId, n)
SetDuration == \E id \in DOMAIN services, n \in DurationInputs : UpdateService(id, n)
ToggleService == ToggleServiceStatus(1)
ToggleBarber == ToggleBarberStatus(2)

Next ==
    \/ Create
    \/ Reschedule
    \/ Cancel
    \/ SetHours
    \/ EditService

Spec == Init /\ [][Next]_vars

\* the sequential operations, with the updateBooking calls that set the status only
NextStatus ==
    \/ Create
    \/ Reschedule
    \/ SetStatus
    \/ Cancel
    \/ SetHours

SpecStatus == Init /\ [][NextStatus]_vars

(***************************************************************************)
(* Concurrent createBooking calls: each handler awaits its conflict check, *)
(* then awaits its insert; other handlers run between the two.             *)
(***************************************************************************)
InFlight == {p \in Procs : pc[p].state = "checked"}

\* createBooking from its start to the return of checkBookingConflicts
CreateCheck(p, request) ==
    /\ pc[p].state = "idle"
    /\ Len(bookings) + Cardinality(InFlight) < MaxBookings
    /\ LET result == createBookingCheck(request)
       IN pc' = [pc EXCEPT ![p] = IF result.success
                                  THEN [state |-> "checked", booking |-> result.booking]
                                  ELSE [state |-> "failed"]]
    /\ UNCHANGED <<bookings, barbers, services, businessHours, now, rangeErrors, lastCheck>>

\* prisma.booking.create of createBooking, and its return
CreateInsert(p) ==
    /\ pc[p].state = "checked"
    /\ bookings' = Append(bookings, pc[p].booking)
    /\ pc' = [pc EXCEPT ![p] = [state |-> "committed", bookingId |-> Len(bookings) + 1]]
    /\ UNCHANGED <<barbers, services, businessHours, now, rangeErrors, lastCheck>>

\* the handler takes the next request
CreateReturn(p) ==
    /\ pc[p].state \in {"failed", "committed"}
    /\ pc' = [pc EXCEPT ![p] = Idle]
    /\ UNCHANGED <<bookings, barbers, services, businessHours, now, rangeErrors, lastCheck>>

\* the operations of the store's staff and catalogue, with the bookings
NextStaff ==
    \/ Create
    \/ Reschedule
    \/ Cancel
    \/ SetHours
    \/ ToggleService
    \/ ToggleBarber

SpecStaff == Init /\ [][NextStaff]_vars

\* bookings and hours changing between the availability queries of a client
NextQuery ==
    \/ Create
    \/ SetHours
    \/ QueryConflicts
    \/ QueryAvailable

SpecQuery == Init /\ [][NextQuery]_vars

\* bookings made and cancelled while the roster and the hours change
NextRoster ==
    \/ Create
    \/ Cancel
    \/ SetHours
    \/ ToggleBarber

SpecRoster == Init /\ [][NextRoster]_vars

\* the slot enumerators applied to windows, durations and steps
NextSlots ==
    \/ ListSlots
    \/ GenerateSlots

SpecSlots == Init /\ [][NextSlots]_vars

\* the overlap tests applied to pairs of intervals
NextOverlap ==
    \/ QueryOverlaps
    \/ RangeOverlaps

SpecOverlap == Init /\ [][NextOverlap]_vars

\* bookings made, completed, cancelled and confirmed again while the hours change
NextLifecycle ==
    \/ Create
    \/ SetStatus
    \/ Cancel
    \/ SetHours

SpecLifecycle == Init /\ [][NextLifecycle]_vars

\* conflict checks made while the storage may fail
NextFailure ==
    \/ Create
    \/ SetHours
    \/ QueryConflicts
    \/ QueryConflictsFailing

SpecFailure == Init /\ [][NextFailure]_vars

\* the business hours of a store set day by day and in bulk
NextHours ==
    \/ SetPatternHours
    \/ SetWeek

SpecHours == Init /\ [][NextHours]_vars

\* the services of the stores created and edited by an administrator
NextServices ==
    \/ AddService
    \/ SetDuration

SpecServices == Init /\ [][NextServices]_vars

\* bookings made and rescheduled while the clock advances
NextFrame ==
    \/ Create
    \/ Reschedule
    \/ SetHours
    \/ Tick

SpecFrame == Init /\ [][NextFrame]_vars

\* bookings made while the hours of Monday are set in bulk
NextWeek ==
    \/ Create
    \/ Cancel
    \/ SetMonday

SpecWeek == Init /\ [][NextWeek]_vars

\* bookings made and rescheduled in two stores
NextTenant ==
    \/ Create
    \/ Reschedule
    \/ SetStoreHours

SpecTenant == Init /\ [][NextTenant]_vars

\* bookings made and moved near the ends of the booking window as time passes
NextWindow ==
    \/ BookInWindow
    \/ MoveInWindow
    \/ SetOpenDays
    \/ Tick

SpecWindow == Init /\ [][NextWindow]_vars

\* barbers and services deleted while bookings are made, cancelled and pass
NextDelete ==
    \/ Create
    \/ Cancel
    \/ OpenMonday
    \/ Tick
    \/ RemoveBarber
    \/ RemoveService

SpecDelete == Init /\ [][NextDelete]_vars

NextConcurrent ==
    \/ \E p \in Procs : \E request \in CreateRequests : CreateCheck(p, request)
    \/ \E p \in Procs : CreateInsert(p)
    \/ \E p \in Procs : CreateReturn(p)
    \/ SetHours

SpecConcurrent == Init /\ [][NextConcurrent]_vars

(***************************************************************************)
(* Properties                                                              *)
(***************************************************************************)
Overlap(a, b) == a.startTime < b.endTime /\ b.startTime < a.endTime

\* C1: in every state reached by createBooking, rescheduling updateBooking and
\* cancelBooking calls run one after the other, no two confirmed bookings of the
\* same barber have overlapping intervals.
NoDoubleBooking ==
    \A i, j \in DOMAIN bookings :
        (/\ i # j
         /\ bookings[i].status = "confirmed" /\ bookings[j].status = "confirmed"
         /\ bookings[i].barberId = bookings[j].barberId)
        => ~Overlap(bookings[i], bookings[j])

\* two confirmed bookings of one barber that touch at an endpoint
C1Witness ==
    \E i, j \in DOMAIN bookings :
        /\ bookings[i].status = "confirmed" /\ bookings[j].status = "confirmed"
        /\ bookings[i].barberId = bookings[j].barberId
        /\ bookings[i].endTime = bookings[j].startTime

\* C2: two concurrent createBooking requests for the same barber and overlapping
\* intervals never both commit a confirmed booking.
AtMostOneCommits ==
    \A p, q \in Procs :
        (/\ p # q
         /\ pc[p].state = "committed" /\ pc[q].state = "committed"
         /\ bookings[pc[p].bookingId].barberId = bookings[pc[q].bookingId].barberId)
        => ~Overlap(bookings[pc[p].bookingId], bookings[pc[q].bookingId])

\* the step changed the status of a booking and nothing else of the bookings
StatusOnlyStep ==
    /\ Len(bookings') = Len(bookings)
    /\ \E i \in DOMAIN bookings : bookings'[i].status # bookings[i].status
    /\ \A i \in DOMAIN bookings :
          bookings'[i] = [bookings[i] EXCEPT !.status = bookings'[i].status]

\* C3: after updateBooking changes only the status of a booking, no two confirmed
\* bookings of the same barber overlap.
NoDoubleBookingAfterStatusChange ==
    [][StatusOnlyStep => NoDoubleBooking']_vars

\* HH:mm as minutes of the day: timeToMinutes, split(':').map(Number)
TimeOfDay(s) ==
    IF Len(s) = 5 THEN (s[1] * 10 + s[2]) * 60 + s[4] * 10 + s[5]
    ELSE s[1] * 60 + s[3] * 10 + s[4]

StartOfDay(t) == (t \div MinutesPerDay) * MinutesPerDay

\* the booking lies within a non-closed row stored for the weekday of its start
WithinStoredHours(b, rows) ==
    \E h \in rows :
        /\ h.storeId = b.storeId
        /\ h.dayOfWeek = getDay(b.startTime)
        /\ ~h.isClosed
        /\ b.startTime >= StartOfDay(b.startTime) + TimeOfDay(h.openTime)
        /\ b.endTime <= StartOfDay(b.startTime) + TimeOfDay(h.closeTime)

\* the conflict checks a caller can ask for: any store, barber or none, service,
\* start and length
ProbeChecks ==
    {[storeId |-> st, barberId |-> b, serviceId |-> sv, startTime |-> t,
      endTime |-> addMinutes(t, d), excludeBookingId |-> None] :
        st \in StoreIds, b \in BarberIds \cup {None}, sv \in ServiceIds,
        t \in StartTimes, d \in Durations}

\* booking i moved to start t, as updateBooking asks checkBookingConflicts
RescheduleCheck(i, t) ==
    [storeId |-> bookings[i].storeId, barberId |-> bookings[i].barberId,
     serviceId |-> bookings[i].serviceId, startTime |-> t,
     endTime |-> addMinutes(t, services[bookings[i].serviceId].duration),
     excludeBookingId |-> i]

\* no non-cancelled booking of the barber other than i overlaps the interval
NoOtherBookingOverlaps(i, check) ==
    \A j \in DOMAIN bookings :
        (j # i /\ bookings[j].barberId = check.barberId
              /\ bookings[j].status # "cancelled")
        => ~Overlap(bookings[j], check)

\* booking i rescheduled onto an interval that meets its own, the service and
\* hours checks passing and no other booking of the barber in the way
SelfOverlapCase(i, t) ==
    LET check == RescheduleCheck(i, t)
    IN /\ Overlap(bookings[i], check)
       /\ NoOtherBookingOverlaps(i, check)
       /\ checkServiceAvailability(check.storeId, check.serviceId).isAvailable
       /\ checkBusinessHours(check.storeId, check.startTime, check.endTime).isWithinHours

\* C6 as claimed: rescheduling booking B onto an interval that overlaps its own,
\* no other booking of the barber overlapping and the service and hours checks
\* passing, reports no conflict.
ExcludeSelfAsClaimed ==
    \A i \in DOMAIN bookings : \A t \in StartTimes :
        SelfOverlapCase(i, t) => ~checkBookingConflicts(RescheduleCheck(i, t)).hasConflict

\* C6 amended: the same, for a booking whose barber is still active.
ExcludeSelfOnReschedule ==
    \A i \in DOMAIN bookings : \A t \in StartTimes :
        (SelfOverlapCase(i, t) /\ barbers[bookings[i].barberId].isActive)
        => ~checkBookingConflicts(RescheduleCheck(i, t)).hasConflict

\* a non-cancelled booking of an active barber that can be moved onto its own time
C6Witness ==
    \E i \in DOMAIN bookings :
        /\ bookings[i].status # "cancelled"
        /\ barbers[bookings[i].barberId].isActive
        /\ SelfOverlapCase(i, bookings[i].startTime)

ActiveInStore(b, storeId) ==
    b \in DOMAIN barbers /\ barbers[b].isActive /\ barbers[b].storeId = storeId

SlotQueries ==
    [storeId : StoreIds, date : {0, 1}, serviceId : ServiceIds,
     barberId : BarberIds \cup {None}, duration : {None}]

\* C7: the alternative search returns at most 5 entries, and neither it nor the
\* slot listing nor auto-assignment returns a barber who is inactive or belongs to
\* another store.
AlternativeBound ==
    /\ \A st \in StoreIds : \A t \in StartTimes : \A d \in Durations :
          /\ \A ex \in {None} \cup DOMAIN bookings :
                LET alts == findAlternativeBarbers(st, t, addMinutes(t, d), ex)
                IN /\ Len(alts) <= 5
                   /\ \A k \in DOMAIN alts : ActiveInStore(alts[k].barberId, st)
          /\ \A b \in Range(findAvailableBarber(st, t, addMinutes(t, d))) :
                ActiveInStore(b, st)
    /\ \A q \in SlotQueries :
          LET slots == getAvailableTimeSlots(q).slots
          IN \A k \in DOMAIN slots : ActiveInStore(slots[k].barberId, q.storeId)

\* a search that collects more than 5 alternatives before it cuts the list
C7Witness ==
    \E st \in StoreIds : \E t \in StartTimes : \E d \in Durations :
        /\ Len(CollectAlternatives(st, t, addMinutes(t, d), None)) > 5
        /\ Len(findAlternativeBarbers(st, t, addMinutes(t, d), None)) = 5

\* what the query recorded in c returns in the current state
ResultOf(c) ==
    IF c.fn = "checkBookingConflicts" THEN checkBookingConflicts(c.input)
    ELSE isTimeSlotAvailable(c.input.storeId, c.input.barberId,
                             c.input.startTime, c.input.endTime)

ValidService(storeId, serviceId) ==
    /\ serviceId \in DOMAIN services
    /\ services[serviceId].storeId = storeId
    /\ services[serviceId].isActive

\* C9: a request whose service is missing or inactive yields service_unavailable,
\* and a request with a valid service outside business hours yields
\* outside_business_hours, whatever the staff state.
GateOrder ==
    \A c \in ProbeChecks :
        /\ ~ValidService(c.storeId, c.serviceId)
               => checkBookingConflicts(c).conflictType = "service_unavailable"
        /\ (ValidService(c.storeId, c.serviceId)
                /\ ~WithinStoredHours(c, businessHours))
               => checkBookingConflicts(c).conflictType = "outside_business_hours"

\* the weekday of t has no row, or only closed rows
ClosedOrUnconfigured(storeId, t) ==
    \A h \in businessHours :
        (h.storeId = storeId /\ h.dayOfWeek = getDay(t)) => h.isClosed

\* C10: on a weekday whose row is absent or closed, every request with a valid
\* service is classified outside_business_hours, isTimeSlotAvailable is false and
\* getAvailableTimeSlots is empty, none of them raising an error.
ClosedEqualsUnconfigured ==
    \A c \in ProbeChecks :
        (ValidService(c.storeId, c.serviceId) /\ ClosedOrUnconfigured(c.storeId, c.startTime))
        => /\ checkBookingConflicts(c).conflictType = "outside_business_hours"
           /\ \A b \in BarberIds :
                  ~isTimeSlotAvailable(c.storeId, b, c.startTime, c.endTime)
           /\ getAvailableTimeSlots([storeId |-> c.storeId,
                                     date |-> formatDate(c.startTime),
                                     serviceId |-> c.serviceId,
                                     barberId |-> c.barberId,
                                     duration |-> None])
                  = [threw |-> FALSE, slots |-> <<>>]

\* a store closed on a day for which it holds a booking made while it was open
C10Witness ==
    \E i \in DOMAIN bookings :
        /\ bookings[i].status # "cancelled"
        /\ HoursRows(bookings[i].storeId, getDay(bookings[i].startTime)) # {}
        /\ ClosedOrUnconfigured(bookings[i].storeId, bookings[i].startTime)
        /\ ValidService(bookings[i].storeId, bookings[i].serviceId)

\* the step wrote booking i: it is new, or its time, barber or service changed
Written(i) ==
    \/ i \notin DOMAIN bookings
    \/ bookings'[i].startTime # bookings[i].startTime
    \/ bookings'[i].endTime # bookings[i].endTime
    \/ bookings'[i].barberId # bookings[i].barberId
    \/ bookings'[i].serviceId # bookings[i].serviceId

\* C4: every booking written by createBooking, or by an updateBooking that changes
\* time, barber or service, starts at or after the open time and ends at or before
\* the close time of the non-closed row stored for its weekday when it is written.
HoursContainment ==
    [][\A i \in DOMAIN bookings' :
          Written(i) => WithinStoredHours(bookings'[i], businessHours')]_vars

\* a booking that ends exactly at closing time, the store open
C4Witness ==
    \E i \in DOMAIN bookings : \E h \in businessHours :
        /\ ~h.isClosed /\ h.storeId = bookings[i].storeId
        /\ h.dayOfWeek = getDay(bookings[i].startTime)
        /\ bookings[i].endTime = StartOfDay(bookings[i].startTime) + TimeOfDay(h.closeTime)

\* C5 as claimed: in every state, also after a service edit, endTime - startTime
\* equals the duration of the booking's service.
DurationMatchesService ==
    \A i \in DOMAIN bookings :
        bookings[i].endTime - bookings[i].startTime
            = services[bookings[i].serviceId].duration

\* C5 amended: whenever createBooking or a rescheduling updateBooking writes a
\* booking, endTime - startTime equals the duration its service has at that moment.
DurationDerivedAtWrite ==
    [][\A i \in DOMAIN bookings' :
          Written(i) => bookings'[i].endTime - bookings'[i].startTime
                            = services'[bookings'[i].serviceId].duration]_vars

\* a booking rewritten after a service edit: it has the service's new duration
\* while an older booking of the same service keeps the old one
C5Witness ==
    \E i, j \in DOMAIN bookings :
        /\ bookings[i].serviceId = bookings[j].serviceId
        /\ bookings[i].endTime - bookings[i].startTime
               = services[bookings[i].serviceId].duration
        /\ bookings[j].endTime - bookings[j].startTime
               # services[bookings[j].serviceId].duration

\* the checks with a barber named, against the bookings or excluding one of them
StaffChecks ==
    {[c EXCEPT !.excludeBookingId = ex] :
        c \in {p \in ProbeChecks : p.barberId # None},
        ex \in {None} \cup DOMAIN bookings}

\* the service and the hours check of checkBookingConflicts pass
ChecksPass(c) ==
    /\ checkServiceAvailability(c.storeId, c.serviceId).isAvailable
    /\ checkBusinessHours(c.storeId, c.startTime, c.endTime).isWithinHours

\* the barber is unknown in the store, inactive, or holds an overlapping
\* non-cancelled booking other than the excluded one
BarberBlocked(c) ==
    \/ c.barberId \notin DOMAIN barbers
    \/ barbers[c.barberId].storeId # c.storeId
    \/ ~barbers[c.barberId].isActive
    \/ \E j \in DOMAIN bookings :
          /\ j # c.excludeBookingId
          /\ bookings[j].barberId = c.barberId
          /\ bookings[j].status # "cancelled"
          /\ Overlap(bookings[j], c)

\* C11: with a barberId given and the service and hours checks passing, a barber
\* who is unknown, inactive or booked over the interval gives hasConflict = true,
\* barber_unavailable and the output of the alternative search; any other barber
\* gives hasConflict = false with no conflictType and no alternatives.
StaffGivenOutcome ==
    \A c \in StaffChecks :
        ChecksPass(c) =>
            checkBookingConflicts(c) =
                IF BarberBlocked(c)
                THEN [hasConflict |-> TRUE, conflictType |-> "barber_unavailable",
                      alternatives |-> findAlternativeBarbers(c.storeId, c.startTime,
                                           c.endTime, c.excludeBookingId)]
                ELSE [hasConflict |-> FALSE, conflictType |-> "none"]

\* a deactivated barber is asked for while a colleague is free, and a free barber
\* is asked for as well
C11Witness ==
    \E c, f \in StaffChecks :
        /\ ChecksPass(c) /\ ChecksPass(f)
        /\ ~barbers[c.barberId].isActive /\ barbers[c.barberId].storeId = c.storeId
        /\ Len(checkBookingConflicts(c).alternatives) > 0
        /\ ~BarberBlocked(f)
        /\ ~checkBookingConflicts(f).hasConflict

\* the checks with no barber named
OpenChecks == {p \in ProbeChecks : p.barberId = None}

\* every active barber of the store is booked over the interval
NoActiveBarberFree(c) ==
    \A b \in DOMAIN barbers :
        (barbers[b].storeId = c.storeId /\ barbers[b].isActive)
        => BarberBlocked([c EXCEPT !.barberId = b])

\* C12: a request without barberId for which no active barber is free is
\* classified time_overlap and carries an alternatives list of 0 to 5 entries, in
\* the result of checkBookingConflicts and in the failure of createBooking.
StaffOmittedCarriesAlternatives ==
    \A c \in OpenChecks :
        (ChecksPass(c) /\ NoActiveBarberFree(c)) =>
            LET result == checkBookingConflicts(c)
                failure == createBookingCheck([storeId |-> c.storeId, barberId |-> None,
                                               serviceId |-> c.serviceId,
                                               startTime |-> c.startTime])
            IN /\ result.hasConflict
               /\ result.conflictType = "time_overlap"
               /\ "alternatives" \in DOMAIN result
               /\ ~failure.success
               /\ "alternatives" \in DOMAIN failure

\* createBooking requests that leave the barber to the system
AutoRequests == {request \in CreateRequests : request.barberId = None}

\* the interval a createBooking request asks for
RequestEnd(request) ==
    addMinutes(request.startTime, services[request.serviceId].duration)

\* b is the first entry of the store's active roster free at the request's interval
FirstFreeInRoster(b, request) ==
    LET roster == ActiveBarbers(request.storeId)
    IN \E k \in DOMAIN roster :
          /\ roster[k] = b
          /\ isTimeSlotAvailable(request.storeId, roster[k], request.startTime,
                                 RequestEnd(request))
          /\ \A j \in 1 .. (k - 1) :
                ~isTimeSlotAvailable(request.storeId, roster[j], request.startTime,
                                     RequestEnd(request))

\* C13: a createBooking without barberId that succeeds writes the first barber of
\* the active roster for which isTimeSlotAvailable holds at the interval; when no
\* roster entry is available it fails and inserts nothing.
FirstAvailableAssigned ==
    [][\A request \in AutoRequests :
          CreateBooking(request) =>
              IF Len(bookings') > Len(bookings)
              THEN FirstFreeInRoster(bookings'[Len(bookings')].barberId, request)
              ELSE bookings' = bookings]_vars

\* the second barber of the roster was assigned while the first one was booked
C13Witness ==
    \E i, j \in DOMAIN bookings :
        /\ i < j
        /\ bookings[i].barberId = 1 /\ bookings[j].barberId = 2
        /\ bookings[i].status # "cancelled"
        /\ Overlap(bookings[i], bookings[j])

\* the alternatives a rejected check carries
HasAlternatives(result) == "alternatives" \in DOMAIN result

\* the barbers free at the interval shifted by offset, in roster order; a barber
\* is free when active and without an overlapping non-cancelled booking other
\* than the excluded one
FreeAt(c, offset) ==
    LET shifted == [c EXCEPT !.startTime = addMinutes(c.startTime, offset),
                             !.endTime = addMinutes(c.endTime, offset)]
        free == {b \in DOMAIN barbers :
                    ~BarberBlocked([shifted EXCEPT !.barberId = b])}
    IN [k \in 1 .. Cardinality(free) |->
           [barberId |-> AscSeq(free)[k], startTime |-> shifted.startTime,
            endTime |-> shifted.endTime]]

RECURSIVE Ladder(_, _, _)
\* the windows tried one after the other until 5 entries are collected
Ladder(c, offsets, collected) ==
    IF offsets = <<>> \/ Len(collected) >= 5 THEN collected
    ELSE Ladder(c, Tail(offsets), collected \o FreeAt(c, Head(offsets)))

\* C14: whenever the same-time scan yields fewer than 5 entries, also 1 to 4, the
\* search goes on to the windows -30, +30, -60, +60 in that order and stops once
\* 5 entries are collected.
OffsetLadderWhenShort ==
    \A c \in StaffChecks :
        LET result == checkBookingConflicts(c)
        IN HasAlternatives(result) =>
              result.alternatives
                  = Take(Ladder(c, <<0 - 30, 30, 0 - 60, 60>>, FreeAt(c, 0)), 5)

\* every free barber at the preferred interval, then at -30, +30, -60, +60
RankedSequence(c) ==
    FreeAt(c, 0) \o FreeAt(c, 0 - 30) \o FreeAt(c, 30) \o FreeAt(c, 0 - 60)
        \o FreeAt(c, 60)

\* C15: every list the alternative search returns has its entries at the preferred
\* interval first, then the shifted ones grouped in the order -30, +30, -60, +60,
\* in roster order within an interval; it holds at most the first 5 of that
\* sequence and every entry has the requested duration.
AlternativeRanking ==
    \A c \in StaffChecks :
        LET result == checkBookingConflicts(c)
        IN HasAlternatives(result) =>
              LET alts == result.alternatives
              IN /\ Len(alts) <= 5
                 /\ Len(alts) <= Len(RankedSequence(c))
                 /\ alts = SubSeq(RankedSequence(c), 1, Len(alts))
                 /\ \A k \in DOMAIN alts :
                       alts[k].endTime - alts[k].startTime = c.endTime - c.startTime

\* a list of 5 that holds entries shifted by -30, by +30 and by -60
C15Witness ==
    \E c \in StaffChecks :
        LET result == checkBookingConflicts(c)
        IN /\ HasAlternatives(result)
           /\ Len(result.alternatives) = 5
           /\ result.alternatives[1].startTime = c.startTime - 30
           /\ result.alternatives[3].startTime = c.startTime + 30
           /\ result.alternatives[5].startTime = c.startTime - 60

\* C16: every entry the alternative search returns passes the full availability
\* check at its own interval: its barber has no overlapping non-cancelled booking
\* other than the excluded one, and the interval lies within the business hours
\* of its day.
AlternativesBookable ==
    \A c \in StaffChecks :
        LET result == checkBookingConflicts(c)
        IN HasAlternatives(result) =>
              \A k \in DOMAIN result.alternatives :
                  LET entry == [c EXCEPT !.barberId = result.alternatives[k].barberId,
                                         !.startTime = result.alternatives[k].startTime,
                                         !.endTime = result.alternatives[k].endTime]
                  IN /\ ~BarberBlocked(entry)
                     /\ WithinStoredHours(entry, businessHours)

\* the start times open + k * step with start + d <= close, ascending
Lattice(open, close, d, step) ==
    AscSeq({t \in open .. close : (t - open) % step = 0 /\ t + d <= close})

\* the start times, in minutes of the day, of the slots an enumerator returned
StartsOf(call) ==
    IF call.fn = "getAvailableTimeSlots"
    THEN [k \in DOMAIN call.result |-> TimeOfDay(call.result[k])]
    ELSE [k \in DOMAIN call.result |-> call.result[k].startTime]

\* C17: for every window, duration d >= 1 and step >= 1 the slot enumerators
\* return, ascending and without duplicates, exactly the starts open + k * step
\* with start + d <= close: nothing when d > close - open or the day is closed,
\* the single slot open when d = close - open.
SlotLattice ==
    lastCheck.fn \in {"getAvailableTimeSlots", "generateBarberTimeSlots"} =>
        LET in == lastCheck.input
        IN StartsOf(lastCheck) =
              IF in.bh.isClosed THEN <<>>
              ELSE Lattice(TimeOfDay(in.bh.openTime), TimeOfDay(in.bh.closeTime),
                           in.serviceDuration, in.slotInterval)

\* s < be and bs < e, on minutes
StrictOverlap(bs, be, s, e) == s < be /\ bs < e

\* C18: for every candidate [s, e) and booking [bs, be) with s < e and bs < be the
\* three-clause booking query selects the booking exactly when s < be and bs < e,
\* as isTimeRangeOverlap does; a booking that only touches the candidate at an
\* endpoint is not selected.
HalfOpenOverlap ==
    /\ lastCheck.fn = "QueryOverlap" =>
          lastCheck.result
              = StrictOverlap(lastCheck.input.booking.startTime,
                              lastCheck.input.booking.endTime,
                              lastCheck.input.candidate.startTime,
                              lastCheck.input.candidate.endTime)
    /\ lastCheck.fn = "isTimeRangeOverlap" =>
          lastCheck.result
              = StrictOverlap(TimeOfDay(lastCheck.input.booking.startTime),
                              TimeOfDay(lastCheck.input.booking.endTime),
                              TimeOfDay(lastCheck.input.candidate.startTime),
                              TimeOfDay(lastCheck.input.candidate.endTime))

\* the query was asked about a booking that ends where the candidate starts
C18Witness ==
    /\ lastCheck.fn = "QueryOverlap"
    /\ lastCheck.input.booking.endTime = lastCheck.input.candidate.startTime
    /\ lastCheck.result = FALSE

\* a new request for the barber, service and interval of booking i
SameSlotCheck(i) ==
    [storeId |-> bookings[i].storeId, barberId |-> bookings[i].barberId,
     serviceId |-> bookings[i].serviceId, startTime |-> bookings[i].startTime,
     endTime |-> bookings[i].endTime, excludeBookingId |-> None]

\* the slots the listing shows for the barber of booking i at its interval
ListedSlots(i) ==
    LET listing == getAvailableTimeSlots(
                       [storeId |-> bookings[i].storeId,
                        date |-> formatDate(bookings[i].startTime),
                        serviceId |-> bookings[i].serviceId,
                        barberId |-> bookings[i].barberId,
                        duration |-> bookings[i].endTime - bookings[i].startTime])
    IN {slot \in Range(listing.slots) :
           /\ slot.barberId = bookings[i].barberId
           /\ slot.startTime = bookings[i].startTime
           /\ slot.endTime = bookings[i].endTime}

\* booking i is cancelled and nothing else stands in the way of its slot: the
\* service and hours checks pass, the barber is active and holds no other
\* non-cancelled booking over the interval
OnlyCancelledInTheWay(i) ==
    /\ bookings[i].status = "cancelled"
    /\ ChecksPass(SameSlotCheck(i))
    /\ barbers[bookings[i].barberId].isActive
    /\ NoOtherBookingOverlaps(i, SameSlotCheck(i))

\* the three functions report the slot of booking i free
ReportedFree(i) ==
    /\ ~checkBookingConflicts(SameSlotCheck(i)).hasConflict
    /\ isTimeSlotAvailable(bookings[i].storeId, bookings[i].barberId,
                           bookings[i].startTime, bookings[i].endTime)
    /\ ListedSlots(i) # {}
    /\ \A slot \in ListedSlots(i) : slot.isAvailable

\* a booking that is not cancelled blocks its own slot in the three functions
Blocks(i) ==
    bookings[i].status # "cancelled" =>
        /\ ~checkBarberAvailability(bookings[i].storeId, bookings[i].barberId,
                                    bookings[i].startTime, bookings[i].endTime,
                                    None).isAvailable
        /\ ~isTimeSlotAvailable(bookings[i].storeId, bookings[i].barberId,
                                bookings[i].startTime, bookings[i].endTime)
        /\ \A slot \in ListedSlots(i) : ~slot.isAvailable

\* C19: once booking B is cancelled, a request for B's barber and interval that
\* was blocked only by B is reported free by checkBookingConflicts,
\* isTimeSlotAvailable and getAvailableTimeSlots; a confirmed or completed booking
\* blocks its slot.
CancelledNeverBlock ==
    \A i \in DOMAIN bookings :
        /\ OnlyCancelledInTheWay(i) => ReportedFree(i)
        /\ Blocks(i)

\* a cancelled booking whose slot is reported free next to a completed booking
C19Witness ==
    \E i, j \in DOMAIN bookings :
        /\ bookings[i].status = "cancelled"
        /\ ReportedFree(i)
        /\ bookings[j].status = "completed"
        /\ ~isTimeSlotAvailable(bookings[j].storeId, bookings[j].barberId,
                                bookings[j].startTime, bookings[j].endTime)

\* C20: an input whose only problem is an expected domain condition (missing or
\* inactive service, closed day or wrong hours, no free slot or barber) makes the
\* slot listing getAvailableTimeSlots, like checkBookingConflicts, return a value
\* and never raise an error.
DomainConditionsAreData ==
    /\ \A q \in SlotQueries : ~getAvailableTimeSlots(q).threw
    /\ \A c \in ProbeChecks : checkBookingConflicts(c).hasConflict \in BOOLEAN

\* the four conflict types of the domain
DomainConflictTypes ==
    {"time_overlap", "outside_business_hours", "barber_unavailable", "service_unavailable"}

\* C21: when a storage call fails during checkBookingConflicts the caller gets a
\* generic failure, not a result with one of the four domain conflict types.
SystemErrorsStayDistinct ==
    lastCheck.fn = "checkBookingConflicts, storage failing" =>
        ~(lastCheck.result.hasConflict
            /\ lastCheck.result.conflictType \in DomainConflictTypes)

\* C22: after any sequence of setBusinessHours and updateDayBusinessHours calls
\* with inputs the HH:mm pattern accepts, every stored record that is not closed
\* has its openTime strictly earlier than its closeTime as times of day.
OpenBeforeClose ==
    \A h \in businessHours :
        ~h.isClosed => TimeOfDay(h.openTime) < TimeOfDay(h.closeTime)

\* C23: in every state reached by setBusinessHours and updateDayBusinessHours
\* calls there is at most one business-hours record per store and weekday.
OneRecordPerWeekday ==
    \A g, h \in businessHours :
        (g.storeId = h.storeId /\ g.dayOfWeek = h.dayOfWeek) => g = h

\* C24: after any sequence of createService and updateService calls every
\* stored service has a duration that is an integer between 1 and 480, as
\* isValidServiceDuration requires: a non-integer, zero, negative or larger
\* duration never reaches the store.
StoredDurationsValid ==
    \A s \in DOMAIN services :
        isValidServiceDuration(Num(services[s].duration, services[s].fraction))

\* C25: a createBooking call that returns success = false inserts no booking
\* and modifies none, and an updateBooking call that returns success = false
\* leaves the target booking, and every other, with its previous field values.
FailureLeavesStateUnchanged ==
    [][bookings' # bookings =>
          /\ \A request \in CreateRequests :
                 ~createBookingCheck(request).success => ~CreateBooking(request)
          /\ \A request \in RescheduleRequests :
                 ~updateBookingResult(request).success => ~UpdateBooking(request)]_vars

\* a booking is stored while creates fail for a missing service, a start too
\* near, no free barber and a conflict, and an update of it fails on a conflict
C25Witness ==
    /\ Len(bookings) >= 1
    /\ \A error \in {"service_not_found", "time_invalid", "no_barber",
                     "barber_unavailable", "outside_business_hours"} :
           \E request \in CreateRequests :
               /\ ~createBookingCheck(request).success
               /\ createBookingCheck(request).error = error
    /\ \E request \in RescheduleRequests :
           /\ request.bookingId = 1
           /\ ~updateBookingResult(request).success
           /\ updateBookingResult(request).error = "barber_unavailable"

\* the check createBooking makes for the barber the roster scan selected
SelectedCheck(request) ==
    [storeId |-> request.storeId,
     barberId |-> findAvailableBarber(request.storeId, request.startTime,
                                      RequestEnd(request))[1],
     serviceId |-> request.serviceId, startTime |-> request.startTime,
     endTime |-> RequestEnd(request), excludeBookingId |-> None]

\* the request reaches the roster scan and the scan selects a barber
BarberSelected(request) ==
    /\ FindActiveService(request.serviceId, request.storeId)
    /\ validateBookingTime(request.startTime)
    /\ Len(findAvailableBarber(request.storeId, request.startTime,
                               RequestEnd(request))) > 0

\* C26: whenever the roster scan of a createBooking without barberId selects a
\* barber, the conflict check made next on the same state for that barber,
\* service and interval reports no conflict.
AutoAssignmentPassesCheck ==
    \A request \in AutoRequests :
        BarberSelected(request) => ~checkBookingConflicts(SelectedCheck(request)).hasConflict

\* the conflict check for the barber and interval of a listed slot
SlotCheck(query, slot) ==
    checkBookingConflicts([storeId |-> query.storeId, barberId |-> slot.barberId,
                           serviceId |-> query.serviceId,
                           startTime |-> slot.startTime, endTime |-> slot.endTime,
                           excludeBookingId |-> None])

\* C27: every slot getAvailableTimeSlots returns has isAvailable true exactly
\* when checkBookingConflicts for the same store, service, barber and interval
\* on the same state reports no barber conflict, and false exactly when it
\* reports barber_unavailable.
ListingAgreesWithCheck ==
    \A query \in SlotQueries :
        \A slot \in Range(getAvailableTimeSlots(query).slots) :
            slot.isAvailable <=>
                ~(SlotCheck(query, slot).hasConflict
                    /\ SlotCheck(query, slot).conflictType = "barber_unavailable")

\* a non-cancelled booking of the check's own store holds its barber over its
\* interval
OwnStoreBlocks(c) ==
    \E j \in DOMAIN bookings :
        /\ bookings[j].storeId = c.storeId
        /\ bookings[j].barberId = c.barberId
        /\ bookings[j].status # "cancelled"
        /\ Overlap(bookings[j], c)

\* the barber or the service named belongs to another store than storeId
NamesForeign(request, storeId) ==
    \/ request.barberId # None /\ barbers[request.barberId].storeId # storeId
    \/ request.serviceId # None /\ services[request.serviceId].storeId # storeId

\* C28: every booking's barber and service belong to the booking's store; a
\* createBooking or updateBooking naming a barber or service of another store
\* fails; and whether a check or a listed slot of a store finds a barber taken
\* depends on the bookings of that store alone.
TenantIsolation ==
    /\ \A i \in DOMAIN bookings :
          /\ barbers[bookings[i].barberId].storeId = bookings[i].storeId
          /\ services[bookings[i].serviceId].storeId = bookings[i].storeId
    /\ \A request \in CreateRequests :
          NamesForeign(request, request.storeId) => ~createBookingCheck(request).success
    /\ \A request \in RescheduleRequests :
          (/\ request.bookingId \in DOMAIN bookings
           /\ NamesForeign(request, bookings[request.bookingId].storeId))
          => ~updateBookingResult(request).success
    /\ \A c \in ProbeChecks :
          (/\ c.barberId # None
           /\ ChecksPass(c)
           /\ ActiveInStore(c.barberId, c.storeId))
          => (checkBookingConflicts(c).hasConflict <=> OwnStoreBlocks(c))
    /\ \A query \in SlotQueries :
          \A slot \in Range(getAvailableTimeSlots(query).slots) :
              ~slot.isAvailable
                  <=> OwnStoreBlocks([storeId |-> query.storeId,
                                      barberId |-> slot.barberId,
                                      startTime |-> slot.startTime,
                                      endTime |-> slot.endTime])

\* the two stores hold confirmed bookings over the same interval
C28Witness ==
    \E i, j \in DOMAIN bookings :
        /\ bookings[i].storeId = 1 /\ bookings[j].storeId = 2
        /\ bookings[i].status = "confirmed" /\ bookings[j].status = "confirmed"
        /\ bookings[i].startTime = bookings[j].startTime

\* at least 30 minutes and at most 90 days after the present time, ends included
InWindow(t) == now + 30 <= t /\ t <= now + 90 * MinutesPerDay

\* the call failed on the time validation, before any barber was looked for
TimeRejected(result) == ~result.success /\ result.error = "time_invalid"

\* C29: createBooking, and updateBooking given a new start, succeed only for a
\* start from now + 30 minutes to now + 90 days, both ends included; a start
\* outside is refused by the time validation, before auto-assignment and the
\* conflict check, and a step writes no start outside the window.
BookingWindow ==
    [][/\ \A request \in WindowRequests :
              TimeRejected(createBookingCheck(request)) <=> ~InWindow(request.startTime)
       /\ \A request \in WindowReschedules :
              request.bookingId \in DOMAIN bookings =>
                  (TimeRejected(updateBookingResult(request))
                      <=> ~InWindow(request.startTime))
       /\ \A i \in DOMAIN bookings' :
              (i \notin DOMAIN bookings \/ bookings'[i].startTime # bookings[i].startTime)
              => InWindow(bookings'[i].startTime)]_vars

\* bookings were written at both ends of the window, 30 minutes and 90 days
\* after the time of the call, while an earlier start is at hand
C29Witness ==
    /\ \E i \in DOMAIN bookings : bookings[i].startTime = now + 30
    /\ \E i \in DOMAIN bookings : bookings[i].startTime = now + 90 * MinutesPerDay
    /\ \E request \in WindowRequests : request.startTime < now + 30

\* booking i is confirmed and starts now or later
FutureConfirmed(i) == bookings[i].status = "confirmed" /\ bookings[i].startTime >= now

\* the barbers the roster scan, the slot listing and the alternative search
\* offer for the store at the interval
Offered(storeId, t, d) ==
    Range(findAvailableBarber(storeId, t, addMinutes(t, d)))
    \cup {slot.barberId :
            slot \in Range(getAvailableTimeSlots(
                               [storeId |-> storeId, date |-> formatDate(t),
                                serviceId |-> 1, barberId |-> None,
                                duration |-> d]).slots)}
    \cup {alt.barberId :
            alt \in Range(findAlternativeBarbers(storeId, t, addMinutes(t, d), None))}

\* C30: deleteBarber and deleteService on a barber or service with a confirmed
\* booking starting now or later deactivate the record and leave the bookings
\* as they were, so every confirmed future booking references an existing
\* barber and service; auto-assignment, the slot listing and the alternative
\* search offer no barber that is deactivated or deleted.
DeleteKeepsFutureBookings ==
    [][/\ \A i \in DOMAIN bookings :
              FutureConfirmed(i) =>
                  /\ bookings[i].barberId \in DOMAIN barbers
                  /\ bookings[i].serviceId \in DOMAIN services
       /\ \A id \in BarberIds, cascade \in BOOLEAN :
              (/\ \E i \in DOMAIN bookings : bookings[i].barberId = id /\ FutureConfirmed(i)
               /\ DeleteBarber(id, cascade))
              => /\ bookings' = bookings
                 /\ id \in DOMAIN barbers' /\ ~barbers'[id].isActive
       /\ \A id \in ServiceIds, cascade \in BOOLEAN :
              (/\ \E i \in DOMAIN bookings : bookings[i].serviceId = id /\ FutureConfirmed(i)
               /\ DeleteService(id, cascade))
              => /\ bookings' = bookings
                 /\ id \in DOMAIN services' /\ ~services'[id].isActive
       /\ \A t \in {9 * 60 + 30, 10 * 60} :
              \A b \in Offered(1, t, 30) : ActiveInStore(b, 1)]_vars

\* barber 1 was deactivated by a delete and keeps a confirmed future booking,
\* barber 2 was deleted, and the service of the booking was deactivated
C30Witness ==
    /\ 1 \in DOMAIN barbers /\ ~barbers[1].isActive
    /\ 2 \notin DOMAIN barbers
    /\ \E i \in DOMAIN bookings :
           /\ bookings[i].barberId = 1
           /\ FutureConfirmed(i)
           /\ ~services[bookings[i].serviceId].isActive

====
